---- MODULE Spec2Model ----
(***************************************************************************)
(* jaxlib/cusolver.py: planning and emission of the XLA custom calls for   *)
(* the cuBLAS / cuSolver kernels (trsm, getrf, geqrf, orgqr, syevd, gesvd).*)
(*                                                                         *)
(* A tensor is known to this code only through c.GetShape: an element type *)
(* and a dimension tuple.  A function call either raises or returns; while *)
(* running it may append CustomCall and Slice ops to the builder c.        *)
(* Python asserts are modelled as executed (the default interpreter mode). *)
(***************************************************************************)
EXTENDS Integers, Sequences, FiniteSets, TLC

\* ---------------------------------------------------------------- bounds
MaxBatchRank  == 2    \* number of batch dimensions of an operand
MaxBatchDim   == 2    \* size of one batch dimension
MaxDim        == 2    \* small matrix dimension sizes 1..MaxDim
MaxPriorCalls == 1    \* custom calls already on the builder at entry

\* ------------------------------------------------------ program constants
LuRatioMax   == 128   \* getrf: m // batch <= 128
SyevjMaxSide == 32    \* syevd: n <= 32

\* ------------------------------------------------------------ input sets
RealDtypes      == {"float32", "float64"}
ComplexDtypes   == {"complex64", "complex128"}
SupportedDtypes == RealDtypes \cup ComplexDtypes
OtherDtypes     == {"int32", "float16"}
AllDtypes       == SupportedDtypes \cup OtherDtypes
PairDtypes      == {"float32", "complex64"}

\* workspace sizes a descriptor builder may return: none and some
LworkSizes == {0, 4}

SeqsUpTo(D, lo, hi) == UNION {[1..r -> D] : r \in lo..hi}
BatchShapes == SeqsUpTo(1..MaxBatchDim, 0, MaxBatchRank)
DimsOver(D) == {b \o t : b \in BatchShapes, t \in SeqsUpTo(D, 0, 2)}

\* shapes of the operands of the two-operand functions: every rank up to
\* MaxBatchRank + 2, each dimension either 1 or the largest size
PairDims ==
  {b \o t : b \in SeqsUpTo({1, MaxBatchDim}, 0, MaxBatchRank),
            t \in SeqsUpTo({1, MaxDim}, 0, 2)}

SmallDims == 1..MaxDim
GetrfDims == SmallDims \cup
             {64, 1024, 2 * LuRatioMax + 1, 2 * LuRatioMax + 2,
              4 * LuRatioMax, 4 * (LuRatioMax + 1)}
SyevdDims == {1, 16, SyevjMaxSide - 1, SyevjMaxSide, SyevjMaxSide + 1, 64}
GesvdDims == SmallDims \cup {3, 5}

\* ------------------------------------------------------------ xla_client
\* _Shape.array_shape(element_type, dimensions, minor_to_major)
array_shape(element_type, dimensions, minor_to_major) ==
  [element_type |-> element_type, dimensions |-> dimensions,
   minor_to_major |-> minor_to_major]

\* the (element type, dimensions) c.GetShape reports for an operand
TensorShape(element_type, dimensions) ==
  [element_type |-> element_type, dimensions |-> dimensions]

NoTensor == TensorShape("none", <<>>)

\* c.CustomCall(kernel, operands, shape_with_layout,
\*              operand_shapes_with_layout, opaque)
CustomCall(kernel, operands, shape_with_layout, operand_shapes, opaque) ==
  [kernel |-> kernel, operands |-> operands,
   shape_with_layout |-> shape_with_layout,
   operand_shapes_with_layout |-> operand_shapes,
   opaque |-> opaque]

\* c.GetTupleElement(out, i): i is the 0-based index of the Python code
GetTupleElement(out, i) ==
  [tuple_index |-> i,
   element_type |-> out.shape_with_layout[i + 1].element_type,
   dimensions |-> out.shape_with_layout[i + 1].dimensions]

\* c.Slice(x, start, limit): the value has dimensions limit - start
Slice(x, start, limit) ==
  [tuple_index |-> x.tuple_index, element_type |-> x.element_type,
   dimensions |-> [i \in 1..Len(limit) |-> limit[i] - start[i]]]

\* the record of one Slice op: what was sliced and between which indices
SliceOp(x, start, limit) ==
  [operand_dimensions |-> x.dimensions, start |-> start, limit |-> limit]

\* build_<op>_descriptor(...): the opaque blob encodes the arguments it was
\* built from; lwork is the workspace size the builder returned.
Descriptor(builder, dtype, ints, flags, lwork) ==
  [builder |-> builder, dtype |-> dtype, ints |-> ints, flags |-> flags,
   lwork |-> lwork]

\* ------------------------------------------------------- control outcomes
NoExc == [type |-> "None", msg |-> ""]
Exc(type, msg) == [type |-> type, msg |-> msg]

\* a call that raised: nothing was appended to the builder, nothing returned
Raise(type, msg) ==
  [exc |-> Exc(type, msg), calls |-> <<>>, slices |-> <<>>, ret |-> <<>>]

\* a call that returned ret after appending calls and slices to the builder
Return(calls, slices, ret) ==
  [exc |-> NoExc, calls |-> calls, slices |-> slices, ret |-> ret]

\* ------------------------------------------------------------- helpers
Min(x, y) == IF x <= y THEN x ELSE y

\* xs[:-k] for a tuple xs (empty when xs has fewer than k entries)
DropLast(xs, k) == IF Len(xs) <= k THEN <<>> ELSE SubSeq(xs, 1, Len(xs) - k)

\* tuple(range(start, -1, -1)) = (start, start-1, ..., 0); () if start < 0
range_down(start) == [i \in 1..(start + 1) |-> start + 1 - i]

\* variant: the batch axes are listed in ascending instead of reversed order
matrix_layout_batch_ascending(num_bd) ==
  <<num_bd, num_bd + 1>> \o [i \in 1..num_bd |-> i - 1]

\* (num_bd, num_bd + 1) + tuple(range(num_bd - 1, -1, -1))
matrix_layout(num_bd) == <<num_bd, num_bd + 1>> \o range_down(num_bd - 1)

\* variant: the reduction starts from 0 instead of 1
RECURSIVE _prod_from_zero(_)
_prod_from_zero(xs) ==
  IF xs = <<>> THEN 0 ELSE xs[1] * _prod_from_zero(Tail(xs))

RECURSIVE _prod(_)
_prod(xs) == IF xs = <<>> THEN 1 ELSE xs[1] * _prod(Tail(xs))

UnsupportedDtype == "NotImplementedError"

\* variant: complex128 is mapped to single precision
_real_type_single(dtype) ==
  IF dtype = "float32" THEN "float32"
  ELSE IF dtype = "float64" THEN "float64"
  ELSE IF dtype = "complex64" THEN "float32"
  ELSE IF dtype = "complex128" THEN "float32"
  ELSE UnsupportedDtype

\* returns the real dtype, or UnsupportedDtype where the code raises
_real_type(dtype) ==
  IF dtype = "float32" THEN "float32"
  ELSE IF dtype = "float64" THEN "float64"
  ELSE IF dtype = "complex64" THEN "float32"
  ELSE IF dtype = "complex128" THEN "float64"
  ELSE UnsupportedDtype

\* ------------------------------------------------------------------ trsm
\* variant: conjugation is rejected whether or not a is transposed
trsm_unsupported_any_conj(trans_a, conj_a) == conj_a

\* the flag combination trsm rejects
trsm_unsupported(trans_a, conj_a) == conj_a /\ ~trans_a

trsm(a_shape, b_shape, left_side, lower, trans_a, conj_a, diag, lwork) ==
  LET dtype == b_shape.element_type
      dims  == b_shape.dimensions
  IN
  IF Len(dims) < 2 THEN Raise("AssertionError", "len(dims) >= 2") ELSE
  LET m == dims[Len(dims) - 1]
      n == dims[Len(dims)]
      batch_dims == DropLast(dims, 2)
      num_bd == Len(batch_dims)
      batch == _prod(batch_dims)
      k == IF left_side THEN m ELSE n
  IN
  IF batch_dims \o <<k, k>> # a_shape.dimensions
       \/ a_shape.element_type # dtype
  THEN Raise("ValueError", "Argument mismatch for trsm") ELSE
  IF trsm_unsupported(trans_a, conj_a)
  THEN Raise("NotImplementedError",
             "Conjugation without transposition not supported") ELSE
  LET opaque == Descriptor("build_trsm_batched_descriptor", dtype,
                           <<batch, m, n>>,
                           <<left_side, lower, trans_a, conj_a, diag>>, lwork)
      layout == matrix_layout(num_bd)
      out == CustomCall("cublas_trsm_batched", <<"a", "b">>,
               << array_shape(dtype, b_shape.dimensions, layout),
                  array_shape("int8", <<lwork>>, <<0>>),
                  array_shape("int8", <<lwork>>, <<0>>) >>,
               << array_shape(dtype, a_shape.dimensions, layout),
                  array_shape(dtype, b_shape.dimensions, layout) >>,
               opaque)
  IN Return(<<out>>, <<>>, <<GetTupleElement(out, 0)>>)

\* ----------------------------------------------------------------- getrf
\* variant: strict comparison against the ratio threshold
getrf_batched_strict(batch, m, n) ==
  batch > 1 /\ m = n /\ m \div batch < LuRatioMax

\* the kernel-selection condition of getrf
getrf_batched(batch, m, n) ==
  batch > 1 /\ m = n /\ m \div batch <= LuRatioMax

getrf(a_shape, lwork) ==
  LET dtype == a_shape.element_type
      dims  == a_shape.dimensions
  IN
  IF Len(dims) < 2 THEN Raise("AssertionError", "len(dims) >= 2") ELSE
  LET m == dims[Len(dims) - 1]
      n == dims[Len(dims)]
      batch_dims == DropLast(dims, 2)
      num_bd == Len(batch_dims)
      batch == _prod(batch_dims)
      batched == getrf_batched(batch, m, n)
      opaque == IF batched
                THEN Descriptor("build_getrf_batched_descriptor", dtype,
                                <<batch, m>>, <<>>, lwork)
                ELSE Descriptor("build_getrf_descriptor", dtype,
                                <<batch, m, n>>, <<>>, lwork)
      workspace == IF batched
                   THEN array_shape("int8", <<lwork>>, <<0>>)
                   ELSE array_shape(dtype, <<lwork>>, <<0>>)
      kernel == IF batched THEN "cublas_getrf_batched" ELSE "cusolver_getrf"
      out == CustomCall(kernel, <<"a">>,
               << array_shape(dtype, batch_dims \o <<m, n>>,
                              matrix_layout(num_bd)),
                  array_shape("int32", batch_dims \o <<Min(m, n)>>,
                              range_down(num_bd)),
                  array_shape("int32", batch_dims, range_down(num_bd - 1)),
                  workspace >>,
               << array_shape(dtype, batch_dims \o <<m, n>>,
                              matrix_layout(num_bd)) >>,
               opaque)
  IN Return(<<out>>, <<>>,
            <<GetTupleElement(out, 0), GetTupleElement(out, 1),
              GetTupleElement(out, 2)>>)

\* ----------------------------------------------------------------- geqrf
geqrf(a_shape, lwork) ==
  LET dtype == a_shape.element_type
      dims  == a_shape.dimensions
  IN
  IF Len(dims) < 2 THEN Raise("AssertionError", "len(dims) >= 2") ELSE
  LET m == dims[Len(dims) - 1]
      n == dims[Len(dims)]
      batch_dims == DropLast(dims, 2)
      num_bd == Len(batch_dims)
      batch == _prod(batch_dims)
      opaque == Descriptor("build_geqrf_descriptor", dtype,
                           <<batch, m, n>>, <<>>, lwork)
      workspace == array_shape(dtype, <<lwork>>, <<0>>)
      out == CustomCall("cusolver_geqrf", <<"a">>,
               << array_shape(dtype, batch_dims \o <<m, n>>,
                              matrix_layout(num_bd)),
                  array_shape(dtype, batch_dims \o <<Min(m, n)>>,
                              range_down(num_bd)),
                  array_shape("int32", batch_dims, range_down(num_bd - 1)),
                  workspace >>,
               << array_shape(dtype, batch_dims \o <<m, n>>,
                              matrix_layout(num_bd)) >>,
               opaque)
  IN Return(<<out>>, <<>>,
            <<GetTupleElement(out, 0), GetTupleElement(out, 1),
              GetTupleElement(out, 2)>>)

\* ----------------------------------------------------------------- orgqr
orgqr(a_shape, tau_shape, lwork) ==
  LET dtype == a_shape.element_type
      dims  == a_shape.dimensions
  IN
  IF Len(dims) < 2 THEN Raise("AssertionError", "len(dims) >= 2") ELSE
  LET m == dims[Len(dims) - 1]
      n == dims[Len(dims)]
      batch_dims == DropLast(dims, 2)
      num_bd == Len(batch_dims)
      batch == _prod(batch_dims)
      tau_dims == tau_shape.dimensions
  IN
  IF DropLast(tau_dims, 1) # DropLast(dims, 2)
  THEN Raise("AssertionError", "tau_dims[:-1] == dims[:-2]") ELSE
  IF tau_dims = <<>>
  THEN Raise("IndexError", "tuple index out of range") ELSE
  LET k == tau_dims[Len(tau_dims)]
      opaque == Descriptor("build_orgqr_descriptor", dtype,
                           <<batch, m, n, k>>, <<>>, lwork)
      workspace == array_shape(dtype, <<lwork>>, <<0>>)
      out == CustomCall("cusolver_orgqr", <<"a", "tau">>,
               << array_shape(dtype, batch_dims \o <<m, n>>,
                              matrix_layout(num_bd)),
                  array_shape("int32", batch_dims, range_down(num_bd - 1)),
                  workspace >>,
               << array_shape(dtype, batch_dims \o <<m, n>>,
                              matrix_layout(num_bd)),
                  array_shape(dtype, batch_dims \o <<k>>,
                              range_down(num_bd)) >>,
               opaque)
  IN Return(<<out>>, <<>>,
            <<GetTupleElement(out, 0), GetTupleElement(out, 1)>>)

\* ----------------------------------------------------------------- syevd
\* variant: exclusive size threshold
syevd_jacobi_exclusive(n) == n < SyevjMaxSide

\* the kernel-selection condition of syevd
syevd_jacobi(n) == n <= SyevjMaxSide

\* the CustomCall syevd builds
syevd_out(dtype, dims, lower, lwork, eigvals_type) ==
  LET n == dims[Len(dims)]
      batch_dims == DropLast(dims, 2)
      num_bd == Len(batch_dims)
      batch == _prod(batch_dims)
      layout == matrix_layout(num_bd)
      kernel == IF syevd_jacobi(n) THEN "cusolver_syevj" ELSE "cusolver_syevd"
      opaque == IF syevd_jacobi(n)
                THEN Descriptor("build_syevj_descriptor", dtype,
                                <<batch, n>>, <<lower>>, lwork)
                ELSE Descriptor("build_syevd_descriptor", dtype,
                                <<batch, n>>, <<lower>>, lwork)
  IN CustomCall(kernel, <<"a">>,
       << array_shape(dtype, dims, layout),
          array_shape(eigvals_type, batch_dims \o <<n>>, range_down(num_bd)),
          array_shape("int32", batch_dims, range_down(num_bd - 1)),
          array_shape(dtype, <<lwork>>, <<0>>) >>,
       << array_shape(dtype, dims, layout) >>,
       opaque)

\* variant: the dtype is validated only after the call has been issued
syevd_validate_after_call(a_shape, lower, lwork) ==
  LET dtype == a_shape.element_type
      dims  == a_shape.dimensions
  IN
  IF Len(dims) < 2 THEN Raise("AssertionError", "len(dims) >= 2") ELSE
  IF dims[Len(dims) - 1] # dims[Len(dims)]
  THEN Raise("AssertionError", "m == n") ELSE
  LET out == syevd_out(dtype, dims, lower, lwork, dtype)
      eigvals_type == _real_type(dtype)
  IN
  IF eigvals_type = UnsupportedDtype
  THEN [exc |-> Exc("NotImplementedError", "Unsupported dtype"),
        calls |-> <<out>>, slices |-> <<>>, ret |-> <<>>]
  ELSE LET good == syevd_out(dtype, dims, lower, lwork, eigvals_type)
       IN Return(<<good>>, <<>>,
                 <<GetTupleElement(good, 0), GetTupleElement(good, 1),
                   GetTupleElement(good, 2)>>)

syevd(a_shape, lower, lwork) ==
  LET dtype == a_shape.element_type
      dims  == a_shape.dimensions
  IN
  IF Len(dims) < 2 THEN Raise("AssertionError", "len(dims) >= 2") ELSE
  LET m == dims[Len(dims) - 1]
      n == dims[Len(dims)]
  IN
  IF m # n THEN Raise("AssertionError", "m == n") ELSE
  LET eigvals_type == _real_type(dtype)
  IN
  IF eigvals_type = UnsupportedDtype
  THEN Raise("NotImplementedError", "Unsupported dtype") ELSE
  LET out == syevd_out(dtype, dims, lower, lwork, eigvals_type)
  IN Return(<<out>>, <<>>,
            <<GetTupleElement(out, 0), GetTupleElement(out, 1),
              GetTupleElement(out, 2)>>)

\* ----------------------------------------------------------------- gesvd
\* the dispatch condition of gesvd: the transposed problem is solved
gesvd_transposed(m, n) == m < n

\* variant: the outputs are not swapped back on the transposed path
gesvd_transposed_uv_unswapped == [u |-> 2, vt |-> 3]

\* which tuple elements gesvd returns as u and vt on the transposed path
gesvd_transposed_uv == [u |-> 3, vt |-> 2]

\* variant: the reduced dimension is put on the wrong axis
gesvd_slice_limits_wrong_axis(m, n) ==
  [u |-> <<Min(m, n), m>>, vt |-> <<n, Min(m, n)>>]

\* the limit indices of the two post-call slices of gesvd
gesvd_slice_limits(m, n) ==
  [u |-> <<m, Min(m, n)>>, vt |-> <<Min(m, n), n>>]

gesvd(a_shape, full_matrices, compute_uv, lwork) ==
  LET dtype == a_shape.element_type
      b == 1
      dims == a_shape.dimensions
  IN
  IF Len(dims) # 2
  THEN Raise("ValueError", "m, n = a_shape.dimensions()") ELSE
  LET m == dims[1]
      n == dims[2]
      singular_vals_dtype == _real_type(dtype)
  IN
  IF singular_vals_dtype = UnsupportedDtype
  THEN Raise("NotImplementedError", "Unsupported dtype") ELSE
  LET transposed == gesvd_transposed(m, n)
      opaque == IF transposed
                THEN Descriptor("build_gesvd_descriptor", dtype,
                                <<b, n, m>>, <<compute_uv, full_matrices>>,
                                lwork)
                ELSE Descriptor("build_gesvd_descriptor", dtype,
                                <<b, m, n>>, <<compute_uv, full_matrices>>,
                                lwork)
      out == IF transposed
             THEN CustomCall("cusolver_gesvd", <<"a">>,
                    << array_shape(dtype, <<m, n>>, <<1, 0>>),
                       array_shape(singular_vals_dtype, <<Min(m, n)>>, <<0>>),
                       array_shape(dtype, <<n, n>>, <<1, 0>>),
                       array_shape(dtype, <<m, m>>, <<1, 0>>),
                       array_shape("int32", <<>>, <<>>),
                       array_shape(dtype, <<lwork>>, <<0>>) >>,
                    << array_shape(dtype, <<m, n>>, <<1, 0>>) >>,
                    opaque)
             ELSE CustomCall("cusolver_gesvd", <<"a">>,
                    << array_shape(dtype, <<m, n>>, <<0, 1>>),
                       array_shape(singular_vals_dtype, <<Min(m, n)>>, <<0>>),
                       array_shape(dtype, <<m, m>>, <<0, 1>>),
                       array_shape(dtype, <<n, n>>, <<0, 1>>),
                       array_shape("int32", <<>>, <<>>),
                       array_shape(dtype, <<lwork>>, <<0>>) >>,
                    << array_shape(dtype, <<m, n>>, <<0, 1>>) >>,
                    opaque)
      s == GetTupleElement(out, 1)
      u0 == IF transposed
            THEN GetTupleElement(out, gesvd_transposed_uv.u)
            ELSE GetTupleElement(out, 2)
      vt0 == IF transposed
             THEN GetTupleElement(out, gesvd_transposed_uv.vt)
             ELSE GetTupleElement(out, 3)
      info == GetTupleElement(out, 4)
      lim == gesvd_slice_limits(m, n)
      u == IF ~full_matrices THEN Slice(u0, <<0, 0>>, lim.u) ELSE u0
      vt == IF ~full_matrices THEN Slice(vt0, <<0, 0>>, lim.vt) ELSE vt0
      slices == IF ~full_matrices
                THEN << SliceOp(u0, <<0, 0>>, lim.u),
                        SliceOp(vt0, <<0, 0>>, lim.vt) >>
                ELSE <<>>
  IN Return(<<out>>, slices, <<s, u, vt, info>>)

\* ------------------------------------------------------------------ state
VARIABLES
  ncalls,   \* number of CustomCall ops on the builder c
  pc,       \* "idle": before the call; "returned" / "raised": after it
  inv,      \* the call made: function name and arguments
  res       \* what the call did: exception, ops appended to c, return value

vars == <<ncalls, pc, inv, res>>

NoInv == [op |-> "none", a |-> NoTensor, b |-> NoTensor, flags |-> <<>>]
Invocation(op, a, b, flags) == [op |-> op, a |-> a, b |-> b, flags |-> flags]

\* the builder c handed in by the caller may already hold custom calls
Init ==
  /\ ncalls \in 0..MaxPriorCalls
  /\ pc = "idle"
  /\ inv = NoInv
  /\ res = Return(<<>>, <<>>, <<>>)

\* one call of a function of the module on the builder, entered at
\* pc = "idle": r is what it did
Call(i, r) ==
  /\ inv' = i
  /\ res' = r
  /\ ncalls' = ncalls + Len(r.calls)
  /\ pc' = IF r.exc = NoExc THEN "returned" ELSE "raised"

TrsmCall ==
  /\ pc = "idle"
  /\ \E adims \in PairDims, bdims \in PairDims,
     adt \in PairDtypes, bdt \in PairDtypes,
     left_side \in BOOLEAN, lower \in BOOLEAN, trans_a \in BOOLEAN,
     conj_a \in BOOLEAN, diag \in BOOLEAN, lwork \in LworkSizes :
    LET a == TensorShape(adt, adims)
        b == TensorShape(bdt, bdims)
    IN Call(Invocation("trsm", a, b,
                       <<left_side, lower, trans_a, conj_a, diag>>),
            trsm(a, b, left_side, lower, trans_a, conj_a, diag, lwork))

GetrfCall ==
  /\ pc = "idle"
  /\ \E dims \in DimsOver(GetrfDims), dt \in AllDtypes, lwork \in LworkSizes :
    LET a == TensorShape(dt, dims)
    IN Call(Invocation("getrf", a, NoTensor, <<>>), getrf(a, lwork))

GeqrfCall ==
  /\ pc = "idle"
  /\ \E dims \in DimsOver(SmallDims), dt \in AllDtypes, lwork \in LworkSizes :
    LET a == TensorShape(dt, dims)
    IN Call(Invocation("geqrf", a, NoTensor, <<>>), geqrf(a, lwork))

OrgqrCall ==
  /\ pc = "idle"
  /\ \E dims \in PairDims, tdims \in PairDims,
     dt \in PairDtypes, tdt \in PairDtypes, lwork \in LworkSizes :
    LET a == TensorShape(dt, dims)
        tau == TensorShape(tdt, tdims)
    IN Call(Invocation("orgqr", a, tau, <<>>), orgqr(a, tau, lwork))

SyevdCall ==
  /\ pc = "idle"
  /\ \E dims \in DimsOver(SyevdDims), dt \in AllDtypes, lower \in BOOLEAN,
     lwork \in LworkSizes :
    LET a == TensorShape(dt, dims)
    IN Call(Invocation("syevd", a, NoTensor, <<lower>>),
            syevd(a, lower, lwork))

GesvdCall ==
  /\ pc = "idle"
  /\ \E dims \in SeqsUpTo(GesvdDims, 0, 3), dt \in AllDtypes,
     full_matrices \in BOOLEAN, compute_uv \in BOOLEAN,
     lwork \in LworkSizes :
    LET a == TensorShape(dt, dims)
    IN Call(Invocation("gesvd", a, NoTensor, <<full_matrices, compute_uv>>),
            gesvd(a, full_matrices, compute_uv, lwork))

\* _real_type called on its own: the value returned is kept as a scalar
\* entry of ret, an unsupported dtype raises
RealTypeCall ==
  /\ pc = "idle"
  /\ \E dt \in AllDtypes :
    LET r == _real_type(dt)
    IN Call(Invocation("_real_type", TensorShape(dt, <<>>), NoTensor, <<>>),
            IF r = UnsupportedDtype
            THEN Raise("NotImplementedError", "Unsupported dtype")
            ELSE Return(<<>>, <<>>, <<TensorShape(r, <<>>)>>))

Next ==
  \/ TrsmCall
  \/ GetrfCall
  \/ GeqrfCall
  \/ OrgqrCall
  \/ SyevdCall
  \/ GesvdCall
  \/ RealTypeCall

Spec == Init /\ [][Next]_vars


\* =================================================================== claims
Functions == {"trsm", "getrf", "geqrf", "orgqr", "syevd", "gesvd"}

Finished == pc # "idle"
Returned(op) == pc = "returned" /\ inv.op = op
TheCall == res.calls[1]

\* the analysed operand: b for trsm, a for the others
Primary == IF inv.op = "trsm" THEN inv.b ELSE inv.a
PrimaryIdx == IF inv.op = "trsm" THEN 2 ELSE 1
Rank(t) == Len(t.dimensions)
Rows(t) == t.dimensions[Len(t.dimensions) - 1]
Cols(t) == t.dimensions[Len(t.dimensions)]
BatchDims(t) == [i \in 1..(Len(t.dimensions) - 2) |-> t.dimensions[i]]

RECURSIVE Product(_)
Product(xs) ==
  IF Len(xs) = 0 THEN 1
  ELSE Product([i \in 1..(Len(xs) - 1) |-> xs[i]]) * xs[Len(xs)]

\* positions of the matrix operands and matrix results of each call
MatrixOperandIdx == IF inv.op = "trsm" THEN {1, 2} ELSE {1}
MatrixResultIdx == IF inv.op = "gesvd" THEN {1, 3, 4} ELSE {1}
MatrixShapes ==
  {TheCall.operand_shapes_with_layout[i] : i \in MatrixOperandIdx} \cup
  {TheCall.shape_with_layout[i] : i \in MatrixResultIdx}

\* l is (N, N+1, N-1, N-2, ..., 0)
CanonicalLayout(l, N) ==
  /\ Len(l) = N + 2
  /\ l[1] = N
  /\ l[2] = N + 1
  /\ \A j \in 1..N : l[2 + j] = N - j

\* C1 as stated: in every custom call emitted by the six functions, every
\* matrix operand and matrix result with N batch dimensions is declared with
\* the layout (N, N+1, N-1, ..., 0); for gesvd that is (0, 1) throughout.
C1_AsStated ==
  (pc = "returned" /\ inv.op \in Functions) =>
    \A sh \in MatrixShapes :
      CanonicalLayout(sh.minor_to_major, Len(sh.dimensions) - 2)

\* C1 amended: trsm, getrf, geqrf, orgqr and syevd declare every matrix
\* operand and result with (N, N+1, N-1, ..., 0); gesvd declares all of them
\* with (0, 1) when rows >= cols and all of them with (1, 0) when
\* rows < cols; within one call all matrix operands and results of the same
\* rank carry the same layout.
C1_Layout ==
  (pc = "returned" /\ inv.op \in Functions) =>
    /\ inv.op # "gesvd" =>
         \A sh \in MatrixShapes :
           CanonicalLayout(sh.minor_to_major, Len(sh.dimensions) - 2)
    /\ inv.op = "gesvd" =>
         \A sh \in MatrixShapes :
           sh.minor_to_major =
             IF Rows(inv.a) >= Cols(inv.a) THEN <<0, 1>> ELSE <<1, 0>>
    /\ \A s1 \in MatrixShapes, s2 \in MatrixShapes :
         s1.minor_to_major = s2.minor_to_major

C1_Witness ==
  /\ Returned("orgqr")
  /\ Rank(inv.a) = 4
  /\ inv.a.dimensions[1] # inv.a.dimensions[2]
  /\ TheCall.operand_shapes_with_layout[1].minor_to_major = <<2, 3, 1, 0>>

\* C2 as stated: getrf selects cublas_getrf_batched exactly when
\* batch_count > 1, rows = cols and rows <= 128 * batch_count.
C2_AsStated ==
  Returned("getrf") =>
    LET batch == Product(BatchDims(inv.a))
    IN (TheCall.kernel = "cublas_getrf_batched") <=>
         (batch > 1 /\ Rows(inv.a) = Cols(inv.a)
            /\ Rows(inv.a) <= 128 * batch)

\* C2 amended: getrf selects cublas_getrf_batched (descriptor from
\* build_getrf_batched_descriptor) exactly when batch_count > 1, rows = cols
\* and the integer quotient floor(rows / batch_count) <= 128, that is
\* rows < 129 * batch_count; otherwise cusolver_getrf (descriptor from
\* build_getrf_descriptor).  (batch 4, 64x64) is batched-direct,
\* (batch 4, 1024x1024) and (batch 1, 64x64) are general.
C2_KernelSelection ==
  Returned("getrf") =>
    LET batch == Product(BatchDims(inv.a))
        rows == Rows(inv.a)
        cols == Cols(inv.a)
        direct == batch > 1 /\ rows = cols /\ rows < 129 * batch
    IN /\ direct =>
            /\ TheCall.kernel = "cublas_getrf_batched"
            /\ TheCall.opaque.builder = "build_getrf_batched_descriptor"
       /\ ~direct =>
            /\ TheCall.kernel = "cusolver_getrf"
            /\ TheCall.opaque.builder = "build_getrf_descriptor"
       /\ (batch = 4 /\ rows = 64 /\ cols = 64) =>
            TheCall.kernel = "cublas_getrf_batched"
       /\ (batch = 4 /\ rows = 1024 /\ cols = 1024) =>
            TheCall.kernel = "cusolver_getrf"
       /\ (batch = 1 /\ rows = 64 /\ cols = 64) =>
            TheCall.kernel = "cusolver_getrf"

C2_Witness ==
  /\ Returned("getrf")
  /\ Product(BatchDims(inv.a)) = 2
  /\ Rows(inv.a) = 257
  /\ Cols(inv.a) = 257
  /\ TheCall.kernel = "cublas_getrf_batched"

\* C3: a call of one of the six functions that raises has issued no custom
\* call and leaves the builder's custom-call count unchanged; a call that
\* returns has issued exactly one custom call and raised the count by one.
C3_OneCallOrNone ==
  [][ inv'.op \in Functions =>
        /\ pc' = "raised" =>
             /\ res'.exc # NoExc
             /\ res'.calls = <<>>
             /\ ncalls' = ncalls
        /\ pc' = "returned" =>
             /\ res'.exc = NoExc
             /\ Len(res'.calls) = 1
             /\ ncalls' = ncalls + 1 ]_vars

C3_Witness ==
  /\ pc = "raised"
  /\ inv.op = "syevd"
  /\ Rank(inv.a) >= 2
  /\ Rows(inv.a) = Cols(inv.a)
  /\ res.exc.type = "NotImplementedError"
  /\ res.calls = <<>>
  /\ ncalls = 1

ConjExc ==
  Exc("NotImplementedError", "Conjugation without transposition not supported")
ConjA == inv.flags[4]
TransA == inv.flags[3]
LeftSide == inv.flags[1]

\* the operand checks of trsm that precede the flag check
TrsmOperandsAgree ==
  /\ Rank(inv.b) >= 2
  /\ inv.a.dimensions =
       BatchDims(inv.b) \o
         (IF LeftSide THEN <<Rows(inv.b), Rows(inv.b)>>
                      ELSE <<Cols(inv.b), Cols(inv.b)>>)
  /\ inv.a.element_type = inv.b.element_type

\* C4 as stated: every trsm call with conj_a and not trans_a fails with
\* the conjugation-without-transposition error and issues no custom call;
\* no other trsm call fails with that error.
C4_AsStated ==
  (Finished /\ inv.op = "trsm") =>
    /\ (ConjA /\ ~TransA) => (res.exc = ConjExc /\ res.calls = <<>>)
    /\ ~(ConjA /\ ~TransA) => res.exc # ConjExc

\* C4 amended: every trsm call with conj_a and not trans_a fails and issues
\* no custom call; it fails with the conjugation-without-transposition
\* NotImplementedError exactly when b has rank >= 2 and a agrees with b in
\* shape and dtype (otherwise the earlier rank or operand check raises its
\* own error); no trsm call with conj_a false or trans_a true fails with
\* that error.
C4_ConjWithoutTrans ==
  (Finished /\ inv.op = "trsm") =>
    /\ (ConjA /\ ~TransA) =>
         /\ pc = "raised"
         /\ res.calls = <<>>
         /\ (res.exc = ConjExc) <=> TrsmOperandsAgree
    /\ ~(ConjA /\ ~TransA) => res.exc # ConjExc

C4_Witness ==
  /\ pc = "raised"
  /\ inv.op = "trsm"
  /\ ConjA /\ ~TransA
  /\ Rank(inv.b) = 3
  /\ res.exc = ConjExc
  /\ res.calls = <<>>

\* C5: trsm (operands a, b) and orgqr (operands a, tau) fail and issue no
\* custom call whenever the operands' batch prefixes differ or their element
\* types differ.
C5_OperandAgreement ==
  (Finished /\ inv.op \in {"trsm", "orgqr"}) =>
    LET prefix_a == DropLast(inv.a.dimensions, 2)
        prefix_b == IF inv.op = "trsm" THEN DropLast(inv.b.dimensions, 2)
                                       ELSE DropLast(inv.b.dimensions, 1)
    IN (prefix_a # prefix_b \/ inv.a.element_type # inv.b.element_type) =>
         (pc = "raised" /\ res.calls = <<>>)

\* the values gesvd returns, in order s, u, vt, info
RetS == res.ret[1]
RetU == res.ret[2]
RetVt == res.ret[3]
FullMatrices == inv.flags[1]
KernelShape(v) == TheCall.shape_with_layout[v.tuple_index + 1]

\* C6: gesvd solves the transposed problem exactly when rows < cols: then
\* the descriptor is built with (cols, rows) and u, vt are taken from the
\* kernel's matrix outputs in swapped order; on both paths u is the
\* (rows x rows) result, vt the (cols x cols) result and s has length
\* min(rows, cols).
C6_TransposedDispatch ==
  Returned("gesvd") =>
    LET rows == Rows(inv.a)
        cols == Cols(inv.a)
        operand == TheCall.operand_shapes_with_layout[1]
    IN /\ rows < cols =>
            /\ operand.minor_to_major = <<1, 0>>
            /\ TheCall.opaque.ints = <<1, cols, rows>>
            /\ RetU.tuple_index = 3 /\ RetVt.tuple_index = 2
       /\ rows >= cols =>
            /\ operand.minor_to_major = <<0, 1>>
            /\ TheCall.opaque.ints = <<1, rows, cols>>
            /\ RetU.tuple_index = 2 /\ RetVt.tuple_index = 3
       /\ KernelShape(RetU).dimensions = <<rows, rows>>
       /\ KernelShape(RetVt).dimensions = <<cols, cols>>
       /\ RetS.tuple_index = 1
       /\ RetS.dimensions = <<IF rows < cols THEN rows ELSE cols>>

C6_Witness ==
  /\ Returned("gesvd")
  /\ Rows(inv.a) = 2
  /\ Cols(inv.a) = 5
  /\ FullMatrices
  /\ RetU.dimensions = <<2, 2>>
  /\ RetVt.dimensions = <<5, 5>>

\* C7: with full_matrices false gesvd returns u of shape
\* (rows, min(rows, cols)) and vt of shape (min(rows, cols), cols), each by
\* one slice from (0, 0) that stays within the sliced tensor; with
\* full_matrices true nothing is sliced and u, vt are (rows, rows) and
\* (cols, cols).  rows = 3, cols = 5 reduced gives u (3, 3), vt (3, 5).
C7_ReducedShapes ==
  Returned("gesvd") =>
    LET rows == Rows(inv.a)
        cols == Cols(inv.a)
        least == IF rows < cols THEN rows ELSE cols
    IN /\ ~FullMatrices =>
            /\ RetU.dimensions = <<rows, least>>
            /\ RetVt.dimensions = <<least, cols>>
            /\ Len(res.slices) = 2
            /\ res.slices[1].operand_dimensions = <<rows, rows>>
            /\ res.slices[2].operand_dimensions = <<cols, cols>>
            /\ \A k \in 1..2 :
                 /\ res.slices[k].start = <<0, 0>>
                 /\ \A d \in 1..2 :
                      res.slices[k].limit[d]
                        <= res.slices[k].operand_dimensions[d]
       /\ FullMatrices =>
            /\ res.slices = <<>>
            /\ RetU.dimensions = <<rows, rows>>
            /\ RetVt.dimensions = <<cols, cols>>
       /\ (~FullMatrices /\ rows = 3 /\ cols = 5) =>
            (RetU.dimensions = <<3, 3>> /\ RetVt.dimensions = <<3, 5>>)

C7_Witness ==
  /\ Returned("gesvd")
  /\ ~FullMatrices
  /\ Rows(inv.a) = 3
  /\ Cols(inv.a) = 5
  /\ RetU.dimensions = <<3, 3>>
  /\ RetVt.dimensions = <<3, 5>>
  /\ Len(res.slices) = 2

\* C8: every syevd call that returns uses cusolver_syevj with
\* build_syevj_descriptor exactly when the side n <= 32 and cusolver_syevd
\* with build_syevd_descriptor exactly when n > 32, whatever the batch
\* shape, dtype and lower flag.
C8_SyevdKernel ==
  Returned("syevd") =>
    LET n == Cols(inv.a)
    IN /\ n <= 32 =>
            /\ TheCall.kernel = "cusolver_syevj"
            /\ TheCall.opaque.builder = "build_syevj_descriptor"
       /\ n > 32 =>
            /\ TheCall.kernel = "cusolver_syevd"
            /\ TheCall.opaque.builder = "build_syevd_descriptor"
       /\ n \in {16, 32} => TheCall.kernel = "cusolver_syevj"
       /\ n = 64 => TheCall.kernel = "cusolver_syevd"

C8_Witness ==
  /\ Returned("syevd")
  /\ Cols(inv.a) = 32
  /\ Rank(inv.a) = 3
  /\ inv.a.element_type = "complex64"
  /\ TheCall.kernel = "cusolver_syevj"

\* C9: for every call that returns, the shape declared for the primary
\* matrix operand and for the primary matrix result splits into the batch
\* dims and (rows, cols) of the input operand, and the batch count given to
\* the descriptor builder is the product of those batch dims.
C9_RoundTrip ==
  (pc = "returned" /\ inv.op \in Functions) =>
    LET declared == TheCall.operand_shapes_with_layout[PrimaryIdx]
        result == TheCall.shape_with_layout[1]
    IN /\ Rank(declared) >= 2
       /\ BatchDims(declared) = BatchDims(Primary)
       /\ <<Rows(declared), Cols(declared)>> = <<Rows(Primary), Cols(Primary)>>
       /\ BatchDims(result) = BatchDims(Primary)
       /\ <<Rows(result), Cols(result)>> = <<Rows(Primary), Cols(Primary)>>
       /\ TheCall.opaque.ints[1] = Product(BatchDims(Primary))

C9_Witness ==
  /\ Returned("geqrf")
  /\ inv.a.dimensions = <<2, 2, 1, 2>>
  /\ TheCall.opaque.ints = <<4, 1, 2>>
  /\ TheCall.shape_with_layout[1].dimensions = <<2, 2, 1, 2>>

\* C10: _real_type maps float32 and complex64 to float32, float64 and
\* complex128 to float64; its result is a real type that it maps to itself;
\* for any other dtype it raises NotImplementedError and returns nothing.
C10_RealType ==
  (Finished /\ inv.op = "_real_type") =>
    LET d == inv.a.element_type
    IN /\ d \in {"float32", "complex64"} =>
            (pc = "returned" /\ res.ret[1].element_type = "float32")
       /\ d \in {"float64", "complex128"} =>
            (pc = "returned" /\ res.ret[1].element_type = "float64")
       /\ pc = "returned" =>
            /\ res.ret[1].element_type \in {"float32", "float64"}
            /\ _real_type(res.ret[1].element_type) = res.ret[1].element_type
       /\ d \notin {"float32", "float64", "complex64", "complex128"} =>
            /\ pc = "raised"
            /\ res.exc.type = "NotImplementedError"
            /\ res.ret = <<>>

C10_Witness ==
  /\ pc = "returned"
  /\ inv.op = "_real_type"
  /\ inv.a.element_type = "complex128"
  /\ res.ret[1].element_type = "float64"
====
